---------------------------- MODULE Spec2Model ----------------------------
(***************************************************************************)
(* A model of yellowdi (src/yellowdi/container.py): the Token interning    *)
(* registry and the Container's registration table and resolve algorithm. *)
(*                                                                         *)
(* Three specifications share the module:                                  *)
(*   Spec         a Container: register / register_value / register_alias *)
(*                and resolve, over a fixed universe of classes;           *)
(*   SpecToken    single-threaded token creation and pickling;             *)
(*   SpecThreads  several threads running Token(name) statement by         *)
(*                statement.                                               *)
(***************************************************************************)
EXTENDS Integers, Sequences, FiniteSets, TLC

VARIABLES
    tokens,          \* Token._tokens: name -> object               (line 27)
    heap,            \* Token instances, by object id: their __dict__
    handles,         \* history: what each finished Token call returned
    threads,         \* per thread: its position inside Token(name)
    registrations,   \* Container._registrations: key -> factory    (line 45)
    last             \* history: the last Container call and its outcome

tokVars == <<tokens, heap, handles>>
ctrVars == <<registrations, last>>
vars == <<tokens, heap, handles, threads, registrations, last>>

\* The empty mapping ({} in Python).
EmptyMap == [n \in {} |-> n]

(***************************************************************************)
(*                                 Token                                   *)
(***************************************************************************)

\* Bounds of the token specifications.
MaxTokenCalls == 4
NumThreads == 3

\* `None`, the default of the name parameter (lines 29, 32).
NoneName == "<None>"
\* The names the model passes to Token.
TokenNames == {"A", "B"}
\* An attribute that has not been assigned yet.
Unset == "<unset>"

\* object.__new__(cls): a new instance with an empty __dict__; ids are
\* positions in the heap.
Allocate(hp) == [heap |-> Append(hp, [name |-> Unset]), obj |-> Len(hp) + 1]

\* Token.__new__ without the membership test of line 35: every call makes
\* a new instance and stores it.
TokenNewNoIntern(reg, hp, name) ==
    LET a == Allocate(hp)
    IN  IF name = NoneName
        THEN [tokens |-> reg, heap |-> a.heap, obj |-> a.obj]
        ELSE [tokens |-> (name :> a.obj) @@ reg, heap |-> a.heap, obj |-> a.obj]

\* Token.__new__ (lines 32-37).
TokenNew(reg, hp, name) ==
    IF name = NoneName
    THEN LET a == Allocate(hp) IN [tokens |-> reg, heap |-> a.heap, obj |-> a.obj]
    ELSE IF name \notin DOMAIN reg
         THEN LET a == Allocate(hp)
              IN  [tokens |-> (name :> a.obj) @@ reg, heap |-> a.heap, obj |-> a.obj]
         ELSE [tokens |-> reg, heap |-> hp, obj |-> reg[name]]

\* Token.__init__ (lines 29-30): self.name = name.
TokenInit(hp, obj, name) == [hp EXCEPT ![obj].name = name]

\* Token(name): type.__call__ runs __new__ and then __init__ on its result.
TokenConstruct(reg, hp, name) ==
    LET n == TokenNew(reg, hp, name)
    IN  [tokens |-> n.tokens, heap |-> TokenInit(n.heap, n.obj, name), obj |-> n.obj]

\* Token.__class_getitem__ (lines 39-40): Token[item] is cls(item).
TokenClassGetItem(reg, hp, item) == TokenConstruct(reg, hp, item)

\* pickle.dumps(token): Token defines no __reduce__ / __getnewargs__, so
\* object.__reduce_ex__ gives (copyreg.__newobj__, (Token,), __dict__): the
\* class, no constructor arguments, and the instance's attributes.
Dumps(hp, obj) == [cls |-> "Token", newargs |-> <<>>, state |-> hp[obj]]

\* pickle.loads: cls.__new__(cls, *newargs), then the state is written into
\* the new instance's __dict__; __init__ is not called.
Loads(reg, hp, p) ==
    LET name == IF Len(p.newargs) = 0 THEN NoneName ELSE p.newargs[1]
        n == TokenNew(reg, hp, name)
    IN  [tokens |-> n.tokens, heap |-> [n.heap EXCEPT ![n.obj] = p.state], obj |-> n.obj]

Handle(style, name, obj, src) == [style |-> style, name |-> name, obj |-> obj, src |-> src]

\* Token(name), constructor style.
TokenCtor(name) ==
    /\ Len(handles) < MaxTokenCalls
    /\ LET r == TokenConstruct(tokens, heap, name)
       IN  /\ tokens' = r.tokens
           /\ heap' = r.heap
           /\ handles' = Append(handles, Handle("ctor", name, r.obj, 0))
    /\ UNCHANGED <<threads, ctrVars>>

\* Token[name], indexer style.
TokenIndex(name) ==
    /\ Len(handles) < MaxTokenCalls
    /\ LET r == TokenClassGetItem(tokens, heap, name)
       IN  /\ tokens' = r.tokens
           /\ heap' = r.heap
           /\ handles' = Append(handles, Handle("index", name, r.obj, 0))
    /\ UNCHANGED <<threads, ctrVars>>

\* Token(), anonymous.
TokenAnon ==
    /\ Len(handles) < MaxTokenCalls
    /\ LET r == TokenConstruct(tokens, heap, NoneName)
       IN  /\ tokens' = r.tokens
           /\ heap' = r.heap
           /\ handles' = Append(handles, Handle("anon", NoneName, r.obj, 0))
    /\ UNCHANGED <<threads, ctrVars>>

\* pickle.loads(pickle.dumps(token)) for a token obtained earlier.
PickleRoundTrip(i) ==
    /\ Len(handles) < MaxTokenCalls
    /\ LET src == handles[i].obj
           r == Loads(tokens, heap, Dumps(heap, src))
       IN  /\ tokens' = r.tokens
           /\ heap' = r.heap
           /\ handles' = Append(handles, Handle("pickle", heap[src].name, r.obj, src))
    /\ UNCHANGED <<threads, ctrVars>>

NextToken ==
    \/ \E name \in TokenNames : TokenCtor(name)
    \/ \E name \in TokenNames : TokenIndex(name)
    \/ TokenAnon
    \/ \E i \in 1..Len(handles) : PickleRoundTrip(i)

(***************************************************************************)
(* Token(name) run by several threads, one statement at a time.            *)
(***************************************************************************)
Threads == 1..NumThreads

Idle == [pc |-> "idle", name |-> NoneName, obj |-> 0]

\* A thread enters Token(name); line 33 is false for a name.
ThreadCall(t, name) ==
    /\ threads[t].pc = "idle"
    /\ threads' = [threads EXCEPT ![t] = [pc |-> "check", name |-> name, obj |-> 0]]
    /\ UNCHANGED <<tokVars, ctrVars>>

\* Line 35: `if name not in cls._tokens`.
ThreadCheck(t) ==
    /\ threads[t].pc = "check"
    /\ threads' = [threads EXCEPT ![t].pc =
                      IF threads[t].name \notin DOMAIN tokens THEN "store" ELSE "return"]
    /\ UNCHANGED <<tokVars, ctrVars>>

\* Line 36: `cls._tokens[name] = super().__new__(cls)`.
ThreadStore(t) ==
    /\ threads[t].pc = "store"
    /\ LET a == Allocate(heap)
       IN  /\ heap' = a.heap
           /\ tokens' = (threads[t].name :> a.obj) @@ tokens
    /\ threads' = [threads EXCEPT ![t].pc = "return"]
    /\ UNCHANGED <<handles, ctrVars>>

\* Line 37: `return cls._tokens[name]`.
ThreadReturn(t) ==
    /\ threads[t].pc = "return"
    /\ threads' = [threads EXCEPT ![t].pc = "init", ![t].obj = tokens[threads[t].name]]
    /\ UNCHANGED <<tokVars, ctrVars>>

\* Lines 29-30: __init__ on the returned object; the call returns it.
ThreadInit(t) ==
    /\ threads[t].pc = "init"
    /\ heap' = TokenInit(heap, threads[t].obj, threads[t].name)
    /\ handles' = Append(handles, Handle("ctor", threads[t].name, threads[t].obj, 0))
    /\ threads' = [threads EXCEPT ![t].pc = "done"]
    /\ UNCHANGED <<tokens, ctrVars>>

NextThreads ==
    \/ \E t \in Threads, name \in TokenNames : ThreadCall(t, name)
    \/ \E t \in Threads : ThreadCheck(t)
    \/ \E t \in Threads : ThreadStore(t)
    \/ \E t \in Threads : ThreadReturn(t)
    \/ \E t \in Threads : ThreadInit(t)

(***************************************************************************)
(*                               Container                                 *)
(***************************************************************************)

\* Bounds of the container specification.
MaxRegs == 2
\* The interpreter's recursion limit, counted in nested resolve calls.
MaxDepth == 4

\* ---- values ----------------------------------------------------------
\* Every Python value has the same four fields; `id` tells apart the objects
\* created during one resolve call, in the order of their creation (0 for
\* values the caller supplied).
Value(kind, cls, id, data) == [kind |-> kind, cls |-> cls, id |-> id, data |-> data]
Given(n) == Value("given", n, 0, EmptyMap)
\* An instance of class c, with the arguments its constructor received.
Instance(c, id, arguments) == Value("obj", c, id, arguments)
\* What a recording factory returns: a new object on every call.
Made(f, id) == Value("made", f, id, EmptyMap)
TupleOf(seq) == Value("tuple", "tuple", 0, seq)
DictOf(map) == Value("dict", "dict", 0, map)
ParameterEmpty == Value("empty", "Parameter.empty", 0, EmptyMap)
NoValue == Value("none", "", 0, EmptyMap)

\* ---- keys and resolve targets ------------------------------------------
Key(kind, name) == [kind |-> kind, name |-> name]
ClassKey(n) == Key("class", n)
TokenKey(n) == Key("token", n)

\* isinstance(_type, Hashable) (line 48): lists and dicts are not.
IsHashable(key) == key.kind \notin {"list", "dict"}
\* resolve without the test of lines 50-51.
IsClassUnchecked(key) == TRUE
\* inspect.isclass(_type) (line 50).
IsClass(key) == key.kind = "class"

\* ---- annotations and parameters ----------------------------------------
Ann(form, ref) == [form |-> form, ref |-> ref, annotated |-> FALSE, tags |-> <<>>]
NoAnn == Ann("empty", "")                \* Parameter.empty
Cls(n) == Ann("class", n)                \* a class object
Lit == Ann("Literal", "0")               \* Literal[0]
Str(n) == Ann("str", n)                  \* a string annotation
Fwd(n) == Ann("ForwardRef", n)           \* ForwardRef(n)
\* Annotated[base, tag, ...]; a string base is stored as a ForwardRef.
Annotated(base, tags) ==
    [(IF base.form = "str" THEN Fwd(base.ref) ELSE base)
        EXCEPT !.annotated = TRUE, !.tags = tags]
StrTag == Key("str", "")

Param(name, kind, default, ann) ==
    [name |-> name, kind |-> kind, default |-> default, ann |-> ann]
Required(name, ann) == Param(name, "POSITIONAL_OR_KEYWORD", ParameterEmpty, ann)

\* The signature of object.__init__, used by a class that defines none:
\* (self, /, *args, **kwargs).
ObjectInit ==
    << Param("args", "VAR_POSITIONAL", ParameterEmpty, NoAnn),
       Param("kwargs", "VAR_KEYWORD", ParameterEmpty, NoAnn) >>

Class(meta, ownInit, params) == [meta |-> meta, ownInit |-> ownInit, params |-> params]
Plain(params) == Class("type", TRUE, params)
Bare == Class("type", FALSE, ObjectInit)

\* The classes of the model: those of tests/test_container.py, and a few
\* more of the same shapes. `params` leaves out self.
ClassTable ==
    [ Registered |-> Bare,
      ForwardReferent |-> Bare,
      Inner |-> Plain(<< Required("registered", Cls("Registered")) >>),
      Outer |-> Plain(<< Required("inner", Cls("Inner")) >>),
      Child |-> Class("Meta", FALSE, ObjectInit),
      MetaOuter |-> Plain(<< Required("child", Cls("Child")) >>),
      OptT |-> Plain(<< Param("inner", "POSITIONAL_OR_KEYWORD", Given("None"), Cls("Inner")) >>),
      NoAnnT |-> Plain(<< Required("_a", NoAnn) >>),
      LitT |-> Plain(<< Required("a", Lit) >>),
      LitAnnT |-> Plain(<< Required("a", Annotated(Lit, << StrTag >>)) >>),
      LitTokT |-> Plain(<< Required("a", Annotated(Lit, << TokenKey("A") >>)) >>),
      TokT |-> Plain(<< Required("resolved_value",
                   Annotated(Cls("Registered"), << TokenKey("A"), StrTag, TokenKey("B") >>)) >>),
      FwdT |-> Plain(<< Required("registered", Str("ForwardReferent")) >>),
      FwdAnnT |-> Plain(<< Required("registered",
                   Annotated(Str("ForwardReferent"), << StrTag >>)) >>),
      LocalT |-> Plain(<< Required("registered", Str("LocalReferent")) >>),
      ParamT |-> Plain(<< Param("a", "POSITIONAL_ONLY", ParameterEmpty, NoAnn),
                          Param("b", "POSITIONAL_OR_KEYWORD", ParameterEmpty, NoAnn),
                          Param("args", "VAR_POSITIONAL", ParameterEmpty, NoAnn),
                          Param("c", "KEYWORD_ONLY", ParameterEmpty, NoAnn),
                          Param("inner_from_container", "KEYWORD_ONLY", ParameterEmpty,
                                Cls("Inner")),
                          Param("kwargs", "VAR_KEYWORD", ParameterEmpty, NoAnn) >>),
      DefT |-> Plain(<< Param("x", "POSITIONAL_OR_KEYWORD", Given("None"), Cls("Registered")),
                        Param("args", "VAR_POSITIONAL", ParameterEmpty,
                              Annotated(Cls("Registered"), << TokenKey("A") >>)),
                        Param("y", "KEYWORD_ONLY", Given("None"), NoAnn),
                        Param("kwargs", "VAR_KEYWORD", ParameterEmpty, Cls("Registered")) >>) ]

ClassNames == DOMAIN ClassTable

\* The attributes of the module that defines the classes: LocalReferent is
\* local to a test function, not a module attribute.
ModuleAttrs == {"ForwardReferent"}

\* ---- inspect.Signature.bind_partial -----------------------------------
\* The model leaves out self and the None bound to it (lines 59, 66).
Bound(ok, arguments) == [ok |-> ok, arguments |-> arguments]

RECURSIVE KeywordBind(_, _, _, _, _)
\* The second loop of Signature._bind: the remaining parameters take their
\* values from kwargs; what is left goes to the **kwargs parameter.
KeywordBind(params, i, kwargs, arguments, kwargsParam) ==
    IF i > Len(params)
    THEN IF DOMAIN kwargs = {}
         THEN Bound(TRUE, arguments)
         ELSE IF kwargsParam # ""
              THEN Bound(TRUE, (kwargsParam :> DictOf(kwargs)) @@ arguments)
              ELSE Bound(FALSE, arguments)
    ELSE LET p == params[i] IN
         IF p.kind = "VAR_KEYWORD"
         THEN KeywordBind(params, i + 1, kwargs, arguments, p.name)
         ELSE IF p.kind = "VAR_POSITIONAL"
         THEN KeywordBind(params, i + 1, kwargs, arguments, kwargsParam)
         ELSE IF p.name \in DOMAIN kwargs
         THEN IF p.kind = "POSITIONAL_ONLY"
              THEN Bound(FALSE, arguments)
              ELSE KeywordBind(params, i + 1,
                               [n \in DOMAIN kwargs \ {p.name} |-> kwargs[n]],
                               (p.name :> kwargs[p.name]) @@ arguments, kwargsParam)
         ELSE KeywordBind(params, i + 1, kwargs, arguments, kwargsParam)

RECURSIVE PositionalBind(_, _, _, _, _, _)
\* The first loop of Signature._bind: positional arguments, in order.
PositionalBind(params, i, args, j, kwargs, arguments) ==
    IF j > Len(args)
    THEN IF i > Len(params)
         THEN KeywordBind(params, i, kwargs, arguments, "")
         ELSE LET p == params[i] IN
              IF p.kind = "VAR_POSITIONAL"
              THEN KeywordBind(params, i + 1, kwargs, arguments, "")
              ELSE IF p.name \in DOMAIN kwargs /\ p.kind = "POSITIONAL_ONLY"
              THEN Bound(FALSE, arguments)
              ELSE KeywordBind(params, i, kwargs, arguments, "")
    ELSE IF i > Len(params)
         THEN Bound(FALSE, arguments)
         ELSE LET p == params[i] IN
              IF p.kind \in {"VAR_KEYWORD", "KEYWORD_ONLY"}
              THEN Bound(FALSE, arguments)
              ELSE IF p.kind = "VAR_POSITIONAL"
              THEN KeywordBind(params, i + 1, kwargs,
                               (p.name :> TupleOf(SubSeq(args, j, Len(args)))) @@ arguments, "")
              ELSE IF p.name \in DOMAIN kwargs /\ p.kind # "POSITIONAL_ONLY"
              THEN Bound(FALSE, arguments)
              ELSE PositionalBind(params, i + 1, args, j + 1, kwargs,
                                  (p.name :> args[j]) @@ arguments)

BindPartial(params, args, kwargs) == PositionalBind(params, 1, args, 1, kwargs, EmptyMap)

\* ---- factories -------------------------------------------------------
\* A zero-argument callable stored by register (line 119): a recording
\* function (tests, record_calls), the lambda of register_value (line 116)
\* or the lambda of register_alias (line 122).
Recording(f) == [kind |-> "fn", fn |-> f]
Constant(v) == [kind |-> "value", value |-> v]
Alias(key) == [kind |-> "alias", alias |-> key]
NoFactory == [kind |-> "none"]

\* ---- the trace of one resolve call --------------------------------------
\* What resolve does, in order: "resolve" (a call of resolve), "lookup" (a
\* membership test on _registrations), "invoke" (a factory call), "argument"
\* (a call of _resolve_argument), "construct" (the class is called).
Event(ev, key, depth, param, fac) ==
    [ev |-> ev, key |-> key, depth |-> depth, param |-> param, fac |-> fac]
Log(st, e) == [st EXCEPT !.log = Append(@, e)]

Outcome(status, val, st) == [status |-> status, val |-> val, next |-> st.next, log |-> st.log]
Ok(val, st) == Outcome("ok", val, st)
Err(status, st) == Outcome(status, NoValue, st)

\* resolve that never finds a registration.
NeverRegistered(reg, key) == FALSE
\* `_type in self._registrations` (lines 53, 86).
IsRegistered(reg, key) == key \in DOMAIN reg
\* `self._registrations[_type]` (lines 54, 87).
FactoryOf(reg, key) == reg[key]
\* resolve without the guard of lines 56-57.
NoMetaclassGuard(key) == FALSE
\* `type(_type) is not type` (line 56); the type of a value that is not a
\* class is never `type`.
HasCustomMetaclass(key) ==
    IF key.kind = "class" THEN ClassTable[key.name].meta # "type" ELSE TRUE
\* _resolve_argument without the test of lines 69-70.
NoDefaults(param) == FALSE
\* `argument.default is not Parameter.empty` (line 69).
HasDefault(param) == param.default # ParameterEmpty
\* `typing.get_origin(type_annotation) is Annotated` (line 81).
IsAnnotated(ann) == ann.annotated
\* `typing.get_origin(type_annotation) is Literal` (line 89).
IsLiteral(ann) == ann.form = "Literal"
\* The annotation object as a target of resolve (line 101): a class, or a
\* typing form such as Literal[0], which is hashable and not a class.
AnnotationKey(ann) == IF ann.form = "class" THEN ClassKey(ann.ref) ELSE Key(ann.form, ann.ref)
\* _resolve_argument that answers a Literal annotation with its value.
LiteralValue(st) == Ok(Given("0"), st)
\* The raise of lines 90-92.
LiteralError(st) == Err("ResolveError", st)
\* `isinstance(annotation, Token)` (line 86).
IsToken(tag) == tag.kind = "token"

\* The loop of lines 85-87 keeping the last match instead of returning at
\* the first.
LastRegisteredToken(reg, tags, i) ==
    LET hits == { k \in i..Len(tags) : IsToken(tags[k]) /\ IsRegistered(reg, tags[k]) }
    IN  IF hits = {} THEN 0 ELSE CHOOSE k \in hits : \A j \in hits : j <= k

RECURSIVE FirstRegisteredToken(_, _, _)
\* The loop of lines 85-87: the position of the first tag, from i on, that
\* is a Token with a registration; 0 when there is none.
FirstRegisteredToken(reg, tags, i) ==
    IF i > Len(tags) THEN 0
    ELSE IF IsToken(tags[i]) /\ IsRegistered(reg, tags[i]) THEN i
    ELSE FirstRegisteredToken(reg, tags, i + 1)

\* The membership tests that loop makes, as events.
ScanEvents(tags, hit, depth, param) ==
    LET n == IF hit = 0 THEN Len(tags) ELSE hit
        all == [i \in 1..n |-> Event("lookup", tags[i], depth, param, NoFactory)]
    IN  SelectSeq(all, LAMBDA e : IsToken(e.key))

\* `_type(*bound.args[1:], **bound.kwargs)` (line 66). object.__init__
\* accepts no arguments; otherwise the instance keeps what __init__ got.
Construct(key, arguments, st, depth) ==
    LET s == Log(st, Event("construct", key, depth, "", NoFactory))
    IN  IF ~ClassTable[key.name].ownInit
        THEN IF Len(arguments["args"].data) > 0 \/ DOMAIN arguments["kwargs"].data # {}
             THEN Err("TypeError", s)
             ELSE Ok(Instance(key.name, s.next, EmptyMap), [s EXCEPT !.next = @ + 1])
        ELSE Ok(Instance(key.name, s.next, arguments), [s EXCEPT !.next = @ + 1])

RECURSIVE Resolve(_, _, _, _, _, _)
RECURSIVE Invoke(_, _, _, _, _)
RECURSIVE ResolveArgument(_, _, _, _, _)
RECURSIVE ResolveForwardDeclaration(_, _, _, _, _, _)
RECURSIVE FillArguments(_, _, _, _, _, _, _)

\* `self._registrations[key]()` (lines 54, 87), with the three kinds of
\* factory the model registers.
Invoke(reg, key, param, st, depth) ==
    LET fac == FactoryOf(reg, key)
        s == Log(st, Event("invoke", key, depth, param, fac))
    IN  CASE fac.kind = "fn" -> Ok(Made(fac.fn, s.next), [s EXCEPT !.next = @ + 1])
          [] fac.kind = "value" -> Ok(fac.value, s)
          [] fac.kind = "alias" -> Resolve(reg, fac.alias, <<>>, EmptyMap, s, depth + 1)

\* Container._resolve_forward_declaration (lines 103-113).
ResolveForwardDeclaration(reg, owner, argumentName, className, st, depth) ==
    IF className \notin ModuleAttrs
    THEN Err("ResolveError", st)
    ELSE Resolve(reg, ClassKey(className), <<>>, EmptyMap, st, depth + 1)

\* Container._resolve_argument (lines 68-101).
ResolveArgument(reg, owner, argument, st, depth) ==
    LET s == Log(st, Event("argument", owner, depth, argument.name, NoFactory))
        ann == argument.ann
    IN  IF HasDefault(argument) THEN Ok(argument.default, s)
        ELSE IF argument.kind = "VAR_POSITIONAL" THEN Ok(TupleOf(<<>>), s)
        ELSE IF argument.kind = "VAR_KEYWORD" THEN Ok(DictOf(EmptyMap), s)
        ELSE IF ann.form = "empty" THEN Err("ResolveError", s)
        ELSE LET hit == IF IsAnnotated(ann) THEN FirstRegisteredToken(reg, ann.tags, 1) ELSE 0
                 scanned == IF IsAnnotated(ann)
                            THEN ScanEvents(ann.tags, hit, depth, argument.name) ELSE <<>>
                 s2 == [s EXCEPT !.log = @ \o scanned]
             IN  IF hit # 0 THEN Invoke(reg, ann.tags[hit], argument.name, s2, depth)
                 ELSE IF IsLiteral(ann) THEN LiteralError(s2)
                 ELSE IF ann.form \in {"str", "ForwardRef"}
                 THEN ResolveForwardDeclaration(reg, owner, argument.name, ann.ref, s2, depth)
                 ELSE Resolve(reg, AnnotationKey(ann), <<>>, EmptyMap, s2, depth + 1)

\* The loop of lines 60-64 from parameter i on: a parameter that
\* bind_partial left unbound gets the value of _resolve_argument.
FillArguments(reg, key, params, i, arguments, st, depth) ==
    IF i > Len(params)
    THEN [status |-> "ok", arguments |-> arguments, next |-> st.next, log |-> st.log]
    ELSE IF params[i].name \in DOMAIN arguments
    THEN FillArguments(reg, key, params, i + 1, arguments, st, depth)
    ELSE LET r == ResolveArgument(reg, key, params[i], st, depth)
         IN  IF r.status # "ok"
             THEN [status |-> r.status, arguments |-> arguments, next |-> r.next, log |-> r.log]
             ELSE FillArguments(reg, key, params, i + 1,
                                (params[i].name :> r.val) @@ arguments,
                                [next |-> r.next, log |-> r.log], depth)

\* Container.resolve (lines 47-66). Past the recursion limit the interpreter
\* raises RecursionError; a failed bind_partial or constructor call raises
\* TypeError.
Resolve(reg, key, args, kwargs, st, depth) ==
    LET s0 == Log(st, Event("resolve", key, depth, "", NoFactory))
    IN  IF depth > MaxDepth THEN Err("RecursionError", s0)
        ELSE IF ~IsHashable(key) THEN Err("ResolveError", s0)
        ELSE IF ~IsClass(key) THEN Err("ResolveError", s0)
        ELSE LET s1 == Log(s0, Event("lookup", key, depth, "", NoFactory))
             IN  IF IsRegistered(reg, key) THEN Invoke(reg, key, "", s1, depth)
                 ELSE IF HasCustomMetaclass(key) THEN Err("ResolveError", s1)
                 ELSE LET params == ClassTable[key.name].params
                          b == BindPartial(params, args, kwargs)
                      IN  IF ~b.ok THEN Err("TypeError", s1)
                          ELSE LET f == FillArguments(reg, key, params, 1, b.arguments,
                                                      s1, depth)
                               IN  IF f.status # "ok"
                                   THEN Err(f.status, f)
                                   ELSE Construct(key, f.arguments, f, depth)

\* ---- the inputs of the model ---------------------------------------------
\* Keys given to register*: a plain class, a class with a metaclass, tokens.
RegKeys == { ClassKey("Registered"), ClassKey("Child"), TokenKey("A"), TokenKey("B") }
\* The value given to register_value.
RegisteredValue == Given("registered_value")
Factories == { Recording("f"), Recording("g") }
AliasTargets == { ClassKey("Inner") }

\* Targets of resolve: every class, and the non-classes of test_must_resolve_classes
\* plus a token.
NonClasses ==
    { Key("str", "a-string"), Key("int", "0"), Key("function", "lambda"),
      Key("list", "[]"), Key("dict", "{}"), TokenKey("A") }
Targets == { ClassKey(n) : n \in ClassNames } \cup NonClasses

\* Explicit arguments of resolve: none, or those of test_resolve_with_parameters.
ExplicitArgs == << Given("1"), Given("2"), Given("5"), Given("6") >>
ExplicitKwargs == ("c" :> Given("3")) @@ ("named" :> Given("test"))
ArgTargets == { ClassKey("ParamT"), ClassKey("DefT"), ClassKey("Registered") }
ResolveInputs ==
    { <<t, <<>>, EmptyMap>> : t \in Targets }
    \cup { <<t, ExplicitArgs, ExplicitKwargs>> : t \in ArgTargets }
    \cup { <<t, SubSeq(ExplicitArgs, 1, 1), EmptyMap>> : t \in ArgTargets }

\* The value of `last` before any call.
NoCall ==
    [op |-> "none", target |-> Key("none", ""), fac |-> NoFactory, args |-> <<>>,
     kwargs |-> EmptyMap, status |-> "none", val |-> NoValue, log |-> <<>>]

\* ---- operations ----------------------------------------------------------
\* register that keeps an entry the key already has (dict.setdefault).
StoreIfAbsent(reg, key, factory) == reg @@ (key :> factory)
\* `self._registrations[_type] = factory` (line 119).
Store(reg, key, factory) == (key :> factory) @@ reg

\* Container.register (lines 118-119).
Register(key, factory) ==
    /\ key \in DOMAIN registrations \/ Cardinality(DOMAIN registrations) < MaxRegs
    /\ registrations' = Store(registrations, key, factory)
    /\ last' = [NoCall EXCEPT !.op = "register", !.target = key, !.fac = factory]
    /\ UNCHANGED <<tokVars, threads>>

\* Container.register_value (lines 115-116).
RegisterValue(key, value) == Register(key, Constant(value))

\* Container.register_alias (lines 121-122).
RegisterAlias(key, alias) == Register(key, Alias(alias))

\* container.resolve(target, *args, **kwargs), called from outside.
ResolveCall(target, args, kwargs) ==
    /\ LET r == Resolve(registrations, target, args, kwargs, [next |-> 1, log |-> <<>>], 0)
       IN  last' = [op |-> "resolve", target |-> target, fac |-> NoFactory,
                    args |-> args, kwargs |-> kwargs,
                    status |-> r.status, val |-> r.val, log |-> r.log]
    /\ UNCHANGED <<tokVars, threads, registrations>>

Next ==
    \/ \E key \in RegKeys, factory \in Factories : Register(key, factory)
    \/ \E key \in RegKeys : RegisterValue(key, RegisteredValue)
    \/ \E key \in RegKeys, alias \in AliasTargets : RegisterAlias(key, alias)
    \/ \E in \in ResolveInputs : ResolveCall(in[1], in[2], in[3])

(***************************************************************************)
(*                              Specifications                             *)
(***************************************************************************)
Init ==
    /\ tokens = EmptyMap
    /\ heap = <<>>
    /\ handles = <<>>
    /\ threads = [t \in Threads |-> Idle]
    /\ registrations = EmptyMap
    /\ last = NoCall

Spec == Init /\ [][Next]_vars

SpecToken == Init /\ [][NextToken]_vars

SpecThreads == Init /\ [][NextThreads]_vars

(***************************************************************************)
(*                          Properties of Token                            *)
(***************************************************************************)
Created(i) == handles[i].style \in {"ctor", "index", "anon"}
Named(i) == handles[i].name # NoneName

\* C4: after any sequence of token creations, two tokens obtained for the
\* same name are the same object whichever syntax was used, tokens for
\* different names are distinct, an anonymous token is identical to no
\* other token, and the registry holds, for each name ever asked for,
\* exactly the one token handed out for it (no entry is removed or replaced).
TokenIdentity ==
    /\ \A i, j \in 1..Len(handles) :
          /\ (Created(i) /\ Created(j) /\ Named(i) /\ Named(j)) =>
                (handles[i].name = handles[j].name <=> handles[i].obj = handles[j].obj)
          /\ (handles[i].style = "anon" /\ i # j) => handles[i].obj # handles[j].obj
    /\ DOMAIN tokens = { handles[i].name : i \in { k \in 1..Len(handles) : Created(k) /\ Named(k) } }
    /\ \A i \in 1..Len(handles) :
          (Created(i) /\ Named(i)) => tokens[handles[i].name] = handles[i].obj

\* C4's case: one name through both syntaxes, a second name, and an
\* anonymous token.
TokenIdentityWitness ==
    \E i, j, k, l \in 1..Len(handles) :
        /\ handles[i].style = "ctor" /\ handles[j].style = "index"
        /\ handles[i].name = handles[j].name
        /\ Named(k) /\ Created(k) /\ handles[k].name # handles[i].name
        /\ handles[l].style = "anon"

\* C5: unpickling a pickled named token gives the very object interned under
\* that name, and no second token carries the name.
PickleKeepsIdentity ==
    \A i \in 1..Len(handles) :
        (handles[i].style = "pickle" /\ Named(i)) =>
            /\ handles[i].obj = handles[i].src
            /\ handles[i].obj = tokens[handles[i].name]
            /\ Cardinality({ o \in 1..Len(heap) : heap[o].name = handles[i].name }) = 1

\* C9: whatever the interleaving, all threads that create a token with one
\* name obtain the same object, which is the registry's entry for the name.
ConcurrentInterning ==
    \A i, j \in 1..Len(handles) :
        handles[i].name = handles[j].name =>
            /\ handles[i].obj = handles[j].obj
            /\ tokens[handles[i].name] = handles[i].obj

(***************************************************************************)
(*                        Properties of Container                          *)
(***************************************************************************)
Resolved == last.op = "resolve"
\* The events of the outermost resolve call itself.
TopEvents(ev) == SelectSeq(last.log, LAMBDA e : e.ev = ev /\ e.depth = 0)
AllEvents(ev) == SelectSeq(last.log, LAMBDA e : e.ev = ev)

\* The last resolve invoked the target's registered factory, once, and
\* returned what that call returned; the target was not auto-constructed.
ReturnsFactoryResult ==
    LET fac == registrations[last.target]
        inv == TopEvents("invoke")
    IN  /\ Len(inv) = 1 /\ inv[1].key = last.target /\ inv[1].fac = fac
        /\ TopEvents("argument") = <<>> /\ TopEvents("construct") = <<>>
        /\ fac.kind = "fn" =>
              last.status = "ok" /\ last.val = Made(fac.fn, 1) /\ Len(AllEvents("invoke")) = 1
        /\ fac.kind = "value" =>
              last.status = "ok" /\ last.val = fac.value /\ Len(AllEvents("invoke")) = 1
        /\ fac.kind = "alias" =>
              LET r == Resolve(registrations, fac.alias, <<>>, EmptyMap,
                               [next |-> 1, log |-> <<>>], 1)
              IN  last.status = r.status /\ last.val = r.val

\* C1: register(K, factory) leaves factory as K's entry, replacing an
\* earlier one, and every resolve(K) of a registered class K invokes the
\* factory registered for K exactly once and returns that call's result,
\* without constructing K itself; nothing is memoized.
RegisteredFactoryInvokedOnce ==
    /\ last.op = "register" => registrations[last.target] = last.fac
    /\ (Resolved /\ last.target.kind = "class" /\ last.target \in DOMAIN registrations)
          => ReturnsFactoryResult

\* C1's case: resolve of a class whose entry is a recording factory.
RegisteredFactoryWitness ==
    /\ Resolved /\ last.target = ClassKey("Registered")
    /\ ClassKey("Registered") \in DOMAIN registrations
    /\ registrations[ClassKey("Registered")] = Recording("g")
    /\ last.status = "ok" /\ last.val.kind = "made" /\ last.val.cls = "g"

\* C6: for a class built through a custom metaclass, resolve raises
\* ResolveError when the class has no registration and returns the
\* registered factory's result when it has one (the lookup comes first).
MetaclassGuard ==
    (Resolved /\ last.target.kind = "class" /\ ClassTable[last.target.name].meta # "type")
      => IF last.target \in DOMAIN registrations
         THEN ReturnsFactoryResult
         ELSE /\ last.status = "ResolveError"
              /\ AllEvents("invoke") = <<>> /\ AllEvents("construct") = <<>>

\* C6's case: a registered class with a metaclass has been resolved.
MetaclassGuardWitness ==
    /\ Resolved /\ last.target = ClassKey("Child")
    /\ ClassKey("Child") \in DOMAIN registrations
    /\ last.status = "ok"

\* C7: resolve of a target that is not a class raises ResolveError, invokes
\* no factory and leaves the registration table as it was, also when the
\* target is a key of the table.
NonClassRejected ==
    [][ (last'.op = "resolve" /\ last'.target.kind # "class")
          => /\ last'.status = "ResolveError"
             /\ SelectSeq(last'.log, LAMBDA e : e.ev \in {"invoke", "construct"}) = <<>>
             /\ registrations' = registrations ]_vars

\* C7's case: the target is a registered key that is not a class.
NonClassRejectedWitness ==
    /\ Resolved /\ last.target = TokenKey("A")
    /\ TokenKey("A") \in DOMAIN registrations
    /\ last.status = "ResolveError"

\* ---- explicit arguments, as a Python call binds them --------------------
Positional == {"POSITIONAL_ONLY", "POSITIONAL_OR_KEYWORD"}
ByName == {"POSITIONAL_OR_KEYWORD", "KEYWORD_ONLY"}
\* The number of positional parameters among the first i.
PositionalUpTo(params, i) == Cardinality({ k \in 1..i : params[k].kind \in Positional })
\* The keyword arguments that name no parameter.
ExtraKwargs(params, kwargs) ==
    [ n \in { m \in DOMAIN kwargs :
               ~\E k \in 1..Len(params) : params[k].kind \in ByName /\ params[k].name = m }
        |-> kwargs[n] ]
\* Whether the call's explicit arguments give parameter i a value.
ExplicitlyBound(params, args, kwargs, i) ==
    LET p == params[i]
    IN  \/ p.kind \in Positional /\ PositionalUpTo(params, i) <= Len(args)
        \/ p.kind \in ByName /\ p.name \in DOMAIN kwargs
        \/ p.kind = "VAR_POSITIONAL" /\ Len(args) > PositionalUpTo(params, Len(params))
        \/ p.kind = "VAR_KEYWORD" /\ DOMAIN ExtraKwargs(params, kwargs) # {}
\* The value they give it.
ExplicitValue(params, args, kwargs, i) ==
    LET p == params[i]
    IN  IF p.kind \in Positional /\ PositionalUpTo(params, i) <= Len(args)
        THEN args[PositionalUpTo(params, i)]
        ELSE IF p.kind = "VAR_POSITIONAL"
        THEN TupleOf(SubSeq(args, PositionalUpTo(params, Len(params)) + 1, Len(args)))
        ELSE IF p.kind = "VAR_KEYWORD"
        THEN DictOf(ExtraKwargs(params, kwargs))
        ELSE kwargs[p.name]

\* The last call was a resolve that went on to bind and fill the
\* constructor parameters of its target.
AutoConstructed ==
    /\ Resolved /\ last.target.kind = "class"
    /\ last.target \notin DOMAIN registrations
    /\ ClassTable[last.target.name].meta = "type"
    /\ last.status # "TypeError"
TargetParams == ClassTable[last.target.name].params
\* The positions in the trace where _resolve_argument starts on `name` for
\* the target itself.
ArgumentEvents(name) ==
    { k \in 1..Len(last.log) :
        last.log[k].ev = "argument" /\ last.log[k].depth = 0 /\ last.log[k].param = name }
\* Nothing happens for that parameter: the next step is the next
\* parameter's, or the constructor call.
Quiet(k) ==
    /\ k < Len(last.log)
    /\ last.log[k + 1].depth = 0
    /\ last.log[k + 1].ev \in {"argument", "construct"}
\* The instance records what its __init__ received.
Received(name, value) ==
    (last.status = "ok" /\ ClassTable[last.target.name].ownInit) => last.val.data[name] = value

\* C10: per constructor parameter, an explicit argument of resolve is kept
\* as it is; otherwise a declared default is used; otherwise a variadic
\* positional parameter gets () and a variadic keyword parameter {}. For
\* such a parameter no registration is looked up, no factory is invoked and
\* resolve is not called, whatever its annotation.
ParameterPrecedence ==
    AutoConstructed =>
      \A i \in 1..Len(TargetParams) :
        LET p == TargetParams[i]
        IN  IF ExplicitlyBound(TargetParams, last.args, last.kwargs, i)
            THEN /\ ~\E k \in 1..Len(last.log) :
                        last.log[k].depth = 0 /\ last.log[k].param = p.name
                 /\ Received(p.name, ExplicitValue(TargetParams, last.args, last.kwargs, i))
            ELSE IF p.default # ParameterEmpty \/ p.kind \in {"VAR_POSITIONAL", "VAR_KEYWORD"}
            THEN /\ \A k \in ArgumentEvents(p.name) : Quiet(k)
                 /\ last.status = "ok" => Cardinality(ArgumentEvents(p.name)) = 1
                 /\ Received(p.name,
                        IF p.default # ParameterEmpty THEN p.default
                        ELSE IF p.kind = "VAR_POSITIONAL" THEN TupleOf(<<>>)
                        ELSE DictOf(EmptyMap))
            ELSE TRUE

\* C10's case: DefT resolved with one positional argument while the class
\* and the token its parameters are annotated with are both registered: x
\* is explicit, y defaulted, *args and **kwargs empty.
ParameterPrecedenceWitness ==
    /\ AutoConstructed /\ last.target = ClassKey("DefT") /\ Len(last.args) = 1
    /\ ClassKey("Registered") \in DOMAIN registrations
    /\ TokenKey("A") \in DOMAIN registrations
    /\ last.status = "ok"
    /\ last.val.data["x"] = last.args[1]
    /\ last.val.data["y"] = Given("None")
    /\ last.val.data["args"] = TupleOf(<<>>)

\* ---- what a resolution yields -------------------------------------------
RECURSIVE Produces(_, _)
RECURSIVE TypeResult(_, _)
\* v is what a call of the factory returns.
Produces(fac, v) ==
    CASE fac.kind = "fn" -> v.kind = "made" /\ v.cls = fac.fn
      [] fac.kind = "value" -> v = fac.value
      [] fac.kind = "alias" -> TypeResult(fac.alias, v)
\* v is what type-based resolution of the class yields: its factory's
\* result when it is registered, an instance of it otherwise.
TypeResult(key, v) ==
    IF key \in DOMAIN registrations
    THEN Produces(registrations[key], v)
    ELSE v.kind = "obj" /\ v.cls = key.name /\ v.id >= 1

\* The first tag, left to right, that is a Token with a registration.
FirstTag(tags) ==
    LET hits == { k \in 1..Len(tags) :
                    tags[k].kind = "token" /\ tags[k] \in DOMAIN registrations }
    IN  IF hits = {} THEN 0 ELSE CHOOSE k \in hits : \A j \in hits : k <= j

\* Parameter i of the target is unfilled, has no default and is annotated
\* with a base type and tags.
TaggedParameter(i) ==
    /\ ~ExplicitlyBound(TargetParams, last.args, last.kwargs, i)
    /\ TargetParams[i].default = ParameterEmpty
    /\ TargetParams[i].ann.annotated

\* The value of such a parameter: the first registered token's factory
\* result, or else the type-based resolution of the base type.
TagResolution(i) ==
    LET p == TargetParams[i]
        hit == FirstTag(p.ann.tags)
        invoked == { k \in 1..Len(last.log) :
                       /\ last.log[k].ev = "invoke" /\ last.log[k].depth = 0
                       /\ last.log[k].param = p.name }
    IN  IF hit # 0
        THEN /\ ArgumentEvents(p.name) # {} =>
                   /\ Cardinality(invoked) = 1
                   /\ \A k \in invoked : /\ last.log[k].key = p.ann.tags[hit]
                                         /\ last.log[k].fac = registrations[p.ann.tags[hit]]
             /\ (last.status = "ok" /\ ClassTable[last.target.name].ownInit) =>
                   Produces(registrations[p.ann.tags[hit]], last.val.data[p.name])
        ELSE /\ invoked = {}
             /\ (last.status = "ok" /\ ClassTable[last.target.name].ownInit) =>
                   TypeResult(ClassKey(p.ann.ref), last.val.data[p.name])

\* C3 as claimed: every unfilled, non-defaulted parameter annotated with a
\* base type and tags gets the factory result of the first tag that is a
\* registered Token, and the type-based resolution of the base type when
\* there is none.
TokenFallbackAnyParameter ==
    AutoConstructed =>
      \A i \in 1..Len(TargetParams) : TaggedParameter(i) => TagResolution(i)

\* C3, amended: the same for every such parameter that is not variadic.
TokenFallbackChain ==
    AutoConstructed =>
      \A i \in 1..Len(TargetParams) :
        (TaggedParameter(i) /\ TargetParams[i].kind \notin {"VAR_POSITIONAL", "VAR_KEYWORD"})
          => TagResolution(i)

\* C3's case: the first token is unregistered and skipped, a later one is
\* registered and gives the value.
TokenFallbackWitness ==
    /\ AutoConstructed /\ last.target = ClassKey("TokT")
    /\ TokenKey("A") \notin DOMAIN registrations
    /\ TokenKey("B") \in DOMAIN registrations
    /\ last.status = "ok"
    /\ Produces(registrations[TokenKey("B")], last.val.data["resolved_value"])

\* Parameter i of the target is annotated as a literal type.
LiteralParameter(i) == TargetParams[i].ann.form = "Literal"

\* C8 as claimed: resolving a class that has a constructor parameter
\* annotated as a literal type, directly or under tags, always fails with
\* ResolveError.
LiteralAlwaysFails ==
    (Resolved /\ last.target.kind = "class"
       /\ \E i \in 1..Len(TargetParams) : LiteralParameter(i))
      => last.status = "ResolveError"

\* C8, amended: resolving an unregistered class fails with ResolveError
\* when argument resolution reaches a parameter annotated as a literal type
\* that is not bound explicitly, has no default, is not variadic and has no
\* tag that is a registered Token; nothing is resolved after it. It is
\* reached whenever every parameter before it is explicit, defaulted or
\* variadic.
LiteralRejected ==
    (Resolved /\ last.target.kind = "class" /\ last.target \notin DOMAIN registrations)
      => \A i \in 1..Len(TargetParams) :
           LET p == TargetParams[i]
               settled(j) == \/ ExplicitlyBound(TargetParams, last.args, last.kwargs, j)
                             \/ TargetParams[j].default # ParameterEmpty
                             \/ TargetParams[j].kind \in {"VAR_POSITIONAL", "VAR_KEYWORD"}
           IN  (LiteralParameter(i) /\ ~settled(i) /\ FirstTag(p.ann.tags) = 0) =>
                 /\ \A k \in ArgumentEvents(p.name) :
                       /\ last.status = "ResolveError"
                       /\ \A m \in (k + 1)..Len(last.log) : last.log[m].ev = "lookup"
                 /\ (last.status # "TypeError" /\ \A j \in 1..(i - 1) : settled(j))
                       => last.status = "ResolveError"

\* C8's case: a literal under a token tag that has no registration, while
\* another token has one.
LiteralRejectedWitness ==
    /\ Resolved /\ last.target = ClassKey("LitTokT")
    /\ TokenKey("A") \notin DOMAIN registrations
    /\ TokenKey("B") \in DOMAIN registrations
    /\ last.status = "ResolveError"

\* ---- chains of classes -------------------------------------------------
\* The parameters a class declares itself (none without an __init__).
Declared(n) == IF ClassTable[n].ownInit THEN ClassTable[n].params ELSE <<>>
NoArguments == last.args = <<>> /\ last.kwargs = EmptyMap

RECURSIVE TypeAnnotatedChain(_)
\* Every constructor parameter, down the chain, is annotated with a class.
TypeAnnotatedChain(n) ==
    \A i \in 1..Len(Declared(n)) :
        /\ Declared(n)[i].ann.form = "class"
        /\ TypeAnnotatedChain(Declared(n)[i].ann.ref)

RECURSIVE HoldsResolutions(_, _)
\* v is an instance of n in which every parameter holds what its type's
\* registration yields (the value itself for register_value), or else a
\* new instance of the type of which the same is true.
HoldsResolutions(v, n) ==
    /\ v.kind = "obj" /\ v.cls = n /\ v.id >= 1
    /\ \A i \in 1..Len(Declared(n)) :
          LET p == Declared(n)[i]
              k == ClassKey(p.ann.ref)
              w == v.data[p.name]
          IN  IF k \in DOMAIN registrations
              THEN Produces(registrations[k], w)
              ELSE /\ HoldsResolutions(w, p.ann.ref)
                   /\ w.id # v.id
                   /\ \A j \in 1..Len(Declared(n)) :
                         (j # i /\ v.data[Declared(n)[j].name].kind = "obj")
                           => v.data[Declared(n)[j].name].id # w.id

\* C2 as claimed: for every chain of classes whose constructor parameters
\* are type-annotated, resolve(Outer) without arguments returns an Outer
\* instance whose parameters hold the registered value of their type, or
\* a new auto-constructed instance of it.
ChainResolvesAnyClass ==
    (Resolved /\ last.target.kind = "class" /\ NoArguments
       /\ Len(Declared(last.target.name)) > 0 /\ TypeAnnotatedChain(last.target.name))
      => last.status = "ok" /\ HoldsResolutions(last.val, last.target.name)

RECURSIVE PlainChain(_)
\* Down the chain every class is registered with register_value, or is
\* unregistered, has no custom metaclass and declares only required
\* parameters annotated directly with a class.
PlainChain(n) ==
    IF ClassKey(n) \in DOMAIN registrations
    THEN registrations[ClassKey(n)].kind = "value"
    ELSE /\ ClassTable[n].meta = "type"
         /\ \A i \in 1..Len(Declared(n)) :
               LET p == Declared(n)[i]
               IN  /\ p.kind \notin {"VAR_POSITIONAL", "VAR_KEYWORD"}
                   /\ p.default = ParameterEmpty
                   /\ p.ann.form = "class" /\ ~p.ann.annotated
                   /\ PlainChain(p.ann.ref)

\* C2, amended: the same for an unregistered Outer and a chain as in
\* PlainChain.
ChainResolves ==
    (Resolved /\ last.target.kind = "class" /\ NoArguments
       /\ last.target \notin DOMAIN registrations /\ PlainChain(last.target.name))
      => last.status = "ok" /\ HoldsResolutions(last.val, last.target.name)

\* C2's case: Outer(inner: Inner), Inner(registered: Registered), with
\* Registered registered by register_value.
ChainResolvesWitness ==
    /\ Resolved /\ last.target = ClassKey("Outer") /\ NoArguments
    /\ ClassKey("Registered") \in DOMAIN registrations
    /\ registrations[ClassKey("Registered")] = Constant(RegisteredValue)
    /\ last.status = "ok"
    /\ last.val.data["inner"].data["registered"] = RegisteredValue

=============================================================================
